---------------------------- MODULE Spec2Model ----------------------------
(***************************************************************************)
(* A model of pickledb-rs (src/src/lib.rs): an in-memory key-value store   *)
(* with a scalar map and a list map, dumped to one file under a dump       *)
(* policy.  Values are kept serialized (JSON text); the file holds the     *)
(* JSON of the pair (map, list_map).                                       *)
(***************************************************************************)
EXTENDS Integers, Sequences, FiniteSets, TLC

(***************************************************************************)
(* Bounds of the model.                                                    *)
(***************************************************************************)
\* longest list lextend builds when one key is used under AutoDump
MaxLen == 3
\* longest list lextend builds when every dump policy is used
MaxDumpLen == 2
\* longest list lextend builds when two keys are used
MaxKeysLen == 2
\* longest list lextend builds when the time between calls is recorded
MaxPeriodicLen == 1
\* longest list in the specification that loads files other programs wrote
MaxForeignLen == 1
\* most ticks of the clock counted since last_dump
MaxElapsed == 2
\* the Durations given to PeriodicDump, in ticks of the clock
Durations == {1}

Keys == {"k1", "k2"}
Locations == {"pickle.db"}
Types == {"i32", "String"}

(***************************************************************************)
(* serde_json on the value types used here.  A JSON text is a sequence of  *)
(* characters.  i32 prints as its decimal digits, a String as its          *)
(* characters between double quotes, with quote and backslash escaped.     *)
(***************************************************************************)
DigitChars == <<"0", "1", "2", "3", "4", "5", "6", "7", "8", "9">>
Quote == "\""
Backslash == "\\"

RECURSIVE Digits(_)
Digits(n) ==
    IF n < 10 THEN <<DigitChars[n + 1]>>
    ELSE Digits(n \div 10) \o <<DigitChars[(n % 10) + 1]>>

RECURSIVE Escape(_)
Escape(s) ==
    IF s = <<>> THEN <<>>
    ELSE (IF Head(s) \in {Quote, Backslash} THEN <<Backslash, Head(s)>> ELSE <<Head(s)>>)
         \o Escape(Tail(s))

\* serde_json::to_string(value)
ToJson(value) ==
    IF value.ty = "i32"
    THEN (IF value.v < 0 THEN <<"-">> \o Digits(0 - value.v) ELSE Digits(value.v))
    ELSE <<Quote>> \o Escape(value.v) \o <<Quote>>

None == [some |-> FALSE]
Some(x) == [some |-> TRUE, val |-> x]

DigitValue(c) == CHOOSE d \in 0..9 : DigitChars[d + 1] = c
IsDigit(c) == \E d \in 0..9 : DigitChars[d + 1] = c

RECURSIVE ParseDigits(_, _)
ParseDigits(s, acc) ==
    IF s = <<>> THEN acc ELSE ParseDigits(Tail(s), acc * 10 + DigitValue(Head(s)))

\* the body of a JSON string: None when a quote is not escaped or an escape is cut
RECURSIVE Unescape(_)
Unescape(s) ==
    IF s = <<>> THEN Some(<<>>)
    ELSE IF Head(s) = Quote THEN None
    ELSE IF Head(s) = Backslash
         THEN IF Len(s) < 2 \/ s[2] \notin {Quote, Backslash} THEN None
              ELSE LET rest == Unescape(Tail(Tail(s)))
                   IN  IF rest.some THEN Some(<<s[2]>> \o rest.val) ELSE None
    ELSE LET rest == Unescape(Tail(s))
         IN  IF rest.some THEN Some(<<Head(s)>> \o rest.val) ELSE None

\* serde_json::from_str::<V>(text).ok() for V = i32 or String
FromJson(ty, text) ==
    IF ty = "i32"
    THEN LET neg == text # <<>> /\ Head(text) = "-"
             ds  == IF neg THEN Tail(text) ELSE text
         IN  IF ds # <<>> /\ (\A i \in 1..Len(ds) : IsDigit(ds[i]))
                /\ (Len(ds) > 1 => ds[1] # "0")
             THEN Some([ty |-> "i32",
                        v |-> IF neg THEN 0 - ParseDigits(ds, 0) ELSE ParseDigits(ds, 0)])
             ELSE None
    ELSE IF Len(text) >= 2 /\ text[1] = Quote /\ text[Len(text)] = Quote
         THEN LET body == Unescape(SubSeq(text, 2, Len(text) - 1))
              IN  IF body.some THEN Some([ty |-> "String", v |-> body.val]) ELSE None
         ELSE None

I32(n) == [ty |-> "i32", v |-> n]
\* the values callers pass
Values == {I32(1), I32(2)}

\* the vectors callers pass to lextend: every element of one type
RECURSIVE SeqsUpTo(_, _)
SeqsUpTo(S, n) ==
    IF n = 0 THEN {<<>>}
    ELSE LET shorter == SeqsUpTo(S, n - 1)
         IN  shorter \cup {Append(s, x) : s \in {t \in shorter : Len(t) = n - 1}, x \in S}
Vectors(maxlen) == UNION {SeqsUpTo({value \in Values : value.ty = ty}, maxlen) : ty \in Types}

(***************************************************************************)
(* HashMap<String, _> as a function on the set of its keys.                *)
(***************************************************************************)
EmptyMap == [k \in {} |-> <<>>]
\* HashMap::entry(k).or_insert(x): an entry already there is kept
InsertIfVacant(m, k, x) == IF k \in DOMAIN m THEN m ELSE [j \in (DOMAIN m) \cup {k} |-> IF j = k THEN x ELSE m[j]]
Insert(m, k, x) == [j \in (DOMAIN m) \cup {k} |-> IF j = k THEN x ELSE m[j]]
Remove(m, k) == [j \in (DOMAIN m) \ {k} |-> m[j]]
MapGet(m, k) == IF k \in DOMAIN m THEN Some(m[k]) ELSE None

\* Vec::remove(pos), pos counted from 0
VecRemove(list, pos) ==
    SubSeq(list, 1, pos) \o SubSeq(list, pos + 2, Len(list))

(***************************************************************************)
(* The file.  The JSON text of (&map, &list_map) is a two-element array of *)
(* objects; an object is the set of its members, as HashMap iteration      *)
(* order is unspecified.                                                   *)
(***************************************************************************)
NoFile == [exists |-> FALSE]
JsonObject(m) == {<<k, m[k]>> : k \in DOMAIN m}
\* the JSON of the scalar map alone
DbToJsonScalars(m, l) == [exists |-> TRUE, wellformed |-> TRUE, doc |-> <<JsonObject(m), {}>>]
\* serde_json::to_string(&(&self.map, &self.list_map))
DbToJson(m, l) == [exists |-> TRUE, wellformed |-> TRUE, doc |-> <<JsonObject(m), JsonObject(l)>>]
\* a file whose text is not the JSON of a pair of maps
Garbage == [exists |-> TRUE, wellformed |-> FALSE, doc |-> <<{}, {}>>]

\* the well-formed files load accepts that hold "k1" in the first object, in the
\* second, in both or in neither: from_str fills map from the first object and
\* list_map from the second without comparing their keys
ForeignMaps(x) == {EmptyMap, Insert(EmptyMap, "k1", x)}
ForeignFiles ==
    {DbToJson(m, l) : m \in ForeignMaps(ToJson(I32(1))), l \in ForeignMaps(<<ToJson(I32(2))>>)}

ObjectToMap(obj) ==
    [k \in {e[1] : e \in obj} |-> (CHOOSE e \in obj : e[1] = k)[2]]

\* fs::read_to_string(location)? then serde_json::from_str(&contents)?
ReadDb(file) ==
    IF ~file.exists THEN [ok |-> FALSE, err |-> "io"]
    ELSE IF ~file.wellformed THEN [ok |-> FALSE, err |-> "json"]
    ELSE [ok |-> TRUE, map |-> ObjectToMap(file.doc[1]), list_map |-> ObjectToMap(file.doc[2])]

(***************************************************************************)
(* Dump policies.                                                          *)
(***************************************************************************)
NeverDump == [kind |-> "NeverDump", dur |-> 0]
AutoDump == [kind |-> "AutoDump", dur |-> 0]
DumpUponRequest == [kind |-> "DumpUponRequest", dur |-> 0]
PeriodicDump(d) == [kind |-> "PeriodicDump", dur |-> d]
Policies == {NeverDump, AutoDump, DumpUponRequest} \cup {PeriodicDump(d) : d \in Durations}

(***************************************************************************)
(* State.  map, list_map, db_file_path and dump_policy are fields of       *)
(* PickleDb.  The field last_dump is an Instant, which the code only ever  *)
(* subtracts from Instant::now(): elapsed is that difference,              *)
(* now.duration_since(self.last_dump), in ticks of the clock.  fs is the   *)
(* file system, phase the life of the store ("none": no store, "active",   *)
(* "panicking": a panic is unwinding), and last the latest call with what  *)
(* it returned.  hist, kept when hist.on, tells of the latest call of the  *)
(* store that reached dumpdb: whether it wrote the file, the ticks since   *)
(* last_dump when it was made (at), the ticks since it returned (since),   *)
(* and in prev the same of the call that reached dumpdb before it, with    *)
(* the ticks between the two (gap); written is the ticks since the store   *)
(* last wrote the file, by dump() or by dumpdb (-1: it has not), and age   *)
(* the ticks since the store was constructed.                              *)
(***************************************************************************)
VARIABLES map, list_map, db_file_path, dump_policy, elapsed, fs, phase, last, hist

vars == <<map, list_map, db_file_path, dump_policy, elapsed, fs, phase, last, hist>>

(***************************************************************************)
(* The methods of PickleDb as functions of the fields they read.           *)
(***************************************************************************)
Outcome(f, e, ret, wrote, panic) ==
    [fs |-> f, elapsed |-> e, ret |-> ret, wrote |-> wrote, panic |-> panic]

\* fs::write(&self.db_file_path, &db_as_json)
write_file(f, path, text) == [f EXCEPT ![path] = text]

\* a dump that does not look at the policy before writing
dump_unconditional(m, l, path, policy, e, f) ==
    {Outcome(write_file(f, path, DbToJson(m, l)),
             IF policy.kind = "PeriodicDump" THEN 0 ELSE e, TRUE, TRUE, FALSE),
     Outcome(f, e, FALSE, FALSE, TRUE)}

\* a dump that sets last_dump under every policy that writes
dump_resetting_last_dump(m, l, path, policy, e, f) ==
    IF policy.kind = "NeverDump"
    THEN {Outcome(f, e, TRUE, FALSE, FALSE)}
    ELSE {Outcome(write_file(f, path, DbToJson(m, l)), 0, TRUE, TRUE, FALSE),
          Outcome(f, e, FALSE, FALSE, TRUE)}

\* a dump that leaves last_dump as it is under PeriodicDump too
dump_keeping_last_dump(m, l, path, policy, e, f) ==
    IF policy.kind = "NeverDump"
    THEN {Outcome(f, e, TRUE, FALSE, FALSE)}
    ELSE {Outcome(write_file(f, path, DbToJson(m, l)), e, TRUE, TRUE, FALSE),
          Outcome(f, e, FALSE, FALSE, TRUE)}

\* dump(&mut self) -> bool: the outcomes of one call made e ticks after last_dump.
\* Serializing maps of Strings is always Ok; fs::write either succeeds or fails,
\* and expect() panics on a failure (the file is then left as it was).
\* self.last_dump = Instant::now() leaves no tick elapsed.
dump_outcomes(m, l, path, policy, e, f) ==
    IF policy.kind = "NeverDump"
    THEN {Outcome(f, e, TRUE, FALSE, FALSE)}
    ELSE {Outcome(write_file(f, path, DbToJson(m, l)),
                  IF policy.kind = "PeriodicDump" THEN 0 ELSE e, TRUE, TRUE, FALSE),
          Outcome(f, e, FALSE, FALSE, TRUE)}

\* a comparison that lets the dump through as soon as the duration is reached
interval_reached(e, dur) == e >= dur
\* line 249: now.duration_since(self.last_dump) > duration
interval_elapsed(e, dur) == e > dur

\* a dumpdb that dumps under PeriodicDump only
dumpdb_periodic_only(m, l, path, policy, e, f) ==
    IF policy.kind = "PeriodicDump" /\ interval_elapsed(e, policy.dur)
    THEN dump_outcomes(m, l, path, policy, 0, f)
    ELSE {Outcome(f, e, TRUE, FALSE, FALSE)}
\* a dumpdb that dumps under DumpUponRequest as it does under AutoDump
dumpdb_upon_request_too(m, l, path, policy, e, f) ==
    IF policy.kind \in {"AutoDump", "DumpUponRequest"}
    THEN dump_outcomes(m, l, path, policy, e, f)
    ELSE IF policy.kind = "PeriodicDump" /\ interval_elapsed(e, policy.dur)
    THEN dump_outcomes(m, l, path, policy, 0, f)
    ELSE {Outcome(f, e, TRUE, FALSE, FALSE)}
\* dumpdb(&mut self): called by the mutating methods
dumpdb(m, l, path, policy, e, f) ==
    IF policy.kind = "AutoDump"
    THEN dump_outcomes(m, l, path, policy, e, f)
    ELSE IF policy.kind = "PeriodicDump"
    THEN IF interval_elapsed(e, policy.dur)
         THEN dump_outcomes(m, l, path, policy, 0, f)
         ELSE {Outcome(f, e, TRUE, FALSE, FALSE)}
    ELSE {Outcome(f, e, TRUE, FALSE, FALSE)}

Entries(m, l) == [map |-> m, list_map |-> l]

\* a set that leaves the list of the key in place
set_keeping_list(m, l, key, value) == Entries(Insert(m, key, ToJson(value)), l)
\* set: lines 299-302
set_entries(m, l, key, value) ==
    Entries(Insert(m, key, ToJson(value)),
            IF key \in DOMAIN l THEN Remove(l, key) ELSE l)

\* get::<V>(key)
get_value(m, key, ty) ==
    LET e == MapGet(m, key) IN IF e.some THEN FromJson(ty, e.val) ELSE None

exists_value(m, l, key) == MapGet(m, key).some \/ MapGet(l, key).some

\* an enumeration of a finite set in some order (HashMap::iter)
Orders(S) ==
    {s \in [1..Cardinality(S) -> S] : \A i, j \in 1..Cardinality(S) : s[i] = s[j] => i = j}
\* a get_all that leaves out the keys of list_map
get_all_scalars(m, l) == Orders(DOMAIN m)
\* get_all(): the keys of map in iteration order, then those of list_map
get_all_values(m, l) == {a \o b : a \in Orders(DOMAIN m), b \in Orders(DOMAIN l)}

total_keys_value(m, l) == Cardinality(DOMAIN m) + Cardinality(DOMAIN l)

\* rem: line 398, where || does not evaluate its right side once the left is true
rem_entries(m, l, key) ==
    IF key \in DOMAIN m THEN Entries(Remove(m, key), l) ELSE Entries(m, Remove(l, key))
rem_value(m, l, key) == key \in DOMAIN m \/ key \in DOMAIN l

\* an lcreate that leaves the scalar of the key in place
lcreate_keeping_scalar(m, l, name) == Entries(m, Insert(l, name, <<>>))
\* lcreate: lines 415-419
lcreate_entries(m, l, name) ==
    Entries(IF name \in DOMAIN m THEN Remove(m, name) ELSE m, Insert(l, name, <<>>))

lexists_value(l, name) == MapGet(l, name).some

\* lextend: the list after list.extend(serialized)
RECURSIVE Serialized(_)
Serialized(seq) == IF seq = <<>> THEN <<>> ELSE <<ToJson(Head(seq))>> \o Serialized(Tail(seq))
\* an extension at the front of the list
lextend_front(list, seq) == Serialized(seq) \o list
lextend_list(list, seq) == list \o Serialized(seq)

\* lget::<V>(name, pos)
lget_value(l, name, pos, ty) ==
    IF name \in DOMAIN l
    THEN IF pos < Len(l[name]) THEN FromJson(ty, l[name][pos + 1]) ELSE None
    ELSE None

llen_value(l, name) == IF name \in DOMAIN l THEN Len(l[name]) ELSE 0

\* an lrem_list that empties the list map (HashMap::clear)
lrem_list_clearing(m, l, name) == Entries(m, EmptyMap)
\* an lrem_list that removes the key from the scalar map too
lrem_list_both(m, l, name) == Entries(Remove(m, name), Remove(l, name))
\* lrem_list: line 604
lrem_list_entries(m, l, name) == Entries(m, Remove(l, name))

\* lpop: whether an item is removed, and the list after list.remove(pos)
lpop_in_bounds(l, name, pos) == name \in DOMAIN l /\ pos < Len(l[name])
\* a pop that takes the last item whatever the position
lpop_last(list, pos) == SubSeq(list, 1, Len(list) - 1)
lpop_list(list, pos) == VecRemove(list, pos)

\* the position of the last item equal to text (Iterator::rposition)
position_last(list, text) ==
    IF \E i \in 1..Len(list) : list[i] = text
    THEN Some((CHOOSE i \in 1..Len(list) :
                   list[i] = text /\ \A j \in (i + 1)..Len(list) : list[j] # text) - 1)
    ELSE None
\* lrem_value: list.iter().position(|x| *x == serialized_value)
position(list, text) ==
    IF \E i \in 1..Len(list) : list[i] = text
    THEN Some((CHOOSE i \in 1..Len(list) :
                   list[i] = text /\ \A j \in 1..(i - 1) : list[j] # text) - 1)
    ELSE None

(***************************************************************************)
(* What a call leaves in last: its name, the key, the other argument, the  *)
(* value returned, whether it wrote the file, and (for set, rem, lcreate,  *)
(* lpop) the entry the key had before the call: its kind, the length of    *)
(* its list and the text of its scalar.                                    *)
(***************************************************************************)
KeyKind(m, l, key) ==
    IF key \in DOMAIN m /\ key \in DOMAIN l THEN "both"
    ELSE IF key \in DOMAIN m THEN "scalar"
    ELSE IF key \in DOMAIN l THEN "list"
    ELSE "absent"
Pre(m, l, key) ==
    [kind |-> KeyKind(m, l, key), len |-> llen_value(l, key), text |-> MapGet(m, key)]
NoPre == [kind |-> "", len |-> 0, text |-> None]
NoPrev == [seen |-> FALSE, gap |-> 0, wrote |-> FALSE]
NoHist(on) ==
    [on |-> on, seen |-> FALSE, since |-> 0, at |-> 0, wrote |-> FALSE, prev |-> NoPrev,
     written |-> -1, age |-> 0]
Forgotten(h) == NoHist(h.on)
Ticked(h) ==
    IF h.on
    THEN [h EXCEPT !.since = IF @ <= MaxElapsed THEN @ + 1 ELSE @,
                   !.written = IF @ >= 0 /\ @ <= MaxElapsed THEN @ + 1 ELSE @,
                   !.age = IF @ <= MaxElapsed THEN @ + 1 ELSE @]
    ELSE h
Recorded(h, e, wrote) ==
    IF h.on
    THEN [on |-> TRUE, seen |-> TRUE, since |-> 0, at |-> e, wrote |-> wrote,
          prev |-> [seen |-> h.seen, gap |-> h.since, wrote |-> h.wrote],
          written |-> IF wrote THEN 0 ELSE h.written, age |-> h.age]
    ELSE h
Flushed(h, wrote) == IF h.on /\ wrote THEN [h EXCEPT !.written = 0] ELSE h
Call(op, key, arg, res, pre) ==
    [op |-> op, key |-> key, arg |-> arg, res |-> res, wrote |-> FALSE, pre |-> pre]
Unit == "()"
Panic == "panic"

InitStore ==
    /\ map = EmptyMap
    /\ list_map = EmptyMap
    /\ db_file_path = ""
    /\ dump_policy = NeverDump
    /\ elapsed = 0
    /\ phase = "none"
    /\ fs \in [Locations -> {NoFile, Garbage}]
    /\ last = Call("none", "", Unit, Unit, NoPre)

Init == InitStore /\ hist = NoHist(FALSE)

\* the monotonic clock advances while a store lives
Tick ==
    /\ phase = "active"
    /\ elapsed < MaxElapsed
    /\ elapsed' = elapsed + 1
    /\ hist' = Ticked(hist)
    /\ UNCHANGED <<map, list_map, db_file_path, dump_policy, fs, phase, last>>

\* a new that starts with a last_dump long past
new_long_ago(location, policy) ==
    /\ phase = "none"
    /\ map' = EmptyMap
    /\ list_map' = EmptyMap
    /\ db_file_path' = location
    /\ dump_policy' = policy
    /\ elapsed' = MaxElapsed
    /\ phase' = "active"
    /\ last' = Call("new", "", policy, Unit, NoPre)
    /\ hist' = Forgotten(hist)
    /\ UNCHANGED fs

\* PickleDb::new(location, dump_policy); last_dump: Instant::now()
new(location, policy) ==
    /\ phase = "none"
    /\ map' = EmptyMap
    /\ list_map' = EmptyMap
    /\ db_file_path' = location
    /\ dump_policy' = policy
    /\ elapsed' = 0
    /\ phase' = "active"
    /\ last' = Call("new", "", policy, Unit, NoPre)
    /\ hist' = Forgotten(hist)
    /\ UNCHANGED fs

\* PickleDb::load(location, dump_policy), also reached from load_read_only
load_as(name, location, policy) ==
    /\ phase = "none"
    /\ LET r == ReadDb(fs[location])
       IN  IF r.ok
           THEN /\ map' = r.map
                /\ list_map' = r.list_map
                /\ db_file_path' = location
                /\ dump_policy' = policy
                /\ elapsed' = 0
                /\ phase' = "active"
                /\ last' = Call(name, "", policy, "Ok", NoPre)
                /\ hist' = Forgotten(hist)
           ELSE /\ last' = Call(name, "", policy, "Err", NoPre)
                /\ UNCHANGED <<map, list_map, db_file_path, dump_policy, elapsed, phase, hist>>
    /\ UNCHANGED fs

load(location, policy) == load_as("load", location, policy)

load_read_only(location) == load_as("load_read_only", location, NeverDump)

\* the end of a call that may write the file: o is one outcome of dump or dumpdb.
\* A call that panics returns nothing: phase tells, and last.res is not read.
Finish(o, call) ==
    /\ fs' = o.fs
    /\ elapsed' = o.elapsed
    /\ phase' = IF o.panic THEN "panicking" ELSE "active"
    /\ last' = [call EXCEPT !.wrote = o.wrote]
    /\ UNCHANGED <<db_file_path, dump_policy>>

dump ==
    /\ phase = "active"
    /\ \E o \in dump_outcomes(map, list_map, db_file_path, dump_policy, elapsed, fs) :
          /\ Finish(o, Call("dump", "", Unit, o.ret, NoPre))
          /\ hist' = Flushed(hist, o.wrote)
    /\ UNCHANGED <<map, list_map>>

\* a mutating method: the entries it leaves, then self.dumpdb(), then its result
Mutate(e, call) ==
    /\ map' = e.map
    /\ list_map' = e.list_map
    /\ \E o \in dumpdb(e.map, e.list_map, db_file_path, dump_policy, elapsed, fs) :
          /\ Finish(o, call)
          /\ hist' = Recorded(hist, elapsed, o.wrote)

\* a method that returns without calling dumpdb
Return(call) ==
    /\ last' = call
    /\ UNCHANGED <<map, list_map, db_file_path, dump_policy, elapsed, fs, phase, hist>>

set(key, value) ==
    /\ phase = "active"
    /\ Mutate(set_entries(map, list_map, key, value),
              Call("set", key, value, Unit, Pre(map, list_map, key)))

\* a get that drops an entry it cannot decode as the type asked for
get_removing_undecodable(key, ty) ==
    /\ phase = "active"
    /\ IF key \in DOMAIN map /\ ~get_value(map, key, ty).some
       THEN Mutate(Entries(Remove(map, key), list_map), Call("get", key, ty, None, NoPre))
       ELSE Return(Call("get", key, ty, get_value(map, key, ty), NoPre))

get(key, ty) ==
    /\ phase = "active"
    /\ Return(Call("get", key, ty, get_value(map, key, ty), NoPre))

exists(key) ==
    /\ phase = "active"
    /\ Return(Call("exists", key, Unit, exists_value(map, list_map, key), NoPre))

get_all ==
    /\ phase = "active"
    /\ \E keys \in get_all_values(map, list_map) :
          Return(Call("get_all", "", Unit, keys, NoPre))

total_keys ==
    /\ phase = "active"
    /\ Return(Call("total_keys", "", Unit, total_keys_value(map, list_map), NoPre))

\* a rem that goes through dumpdb only when it removed an entry
rem_dumping_if_removed(key) ==
    /\ phase = "active"
    /\ IF rem_value(map, list_map, key)
       THEN Mutate(rem_entries(map, list_map, key),
                   Call("rem", key, Unit, TRUE, Pre(map, list_map, key)))
       ELSE Return(Call("rem", key, Unit, FALSE, Pre(map, list_map, key)))

rem(key) ==
    /\ phase = "active"
    /\ Mutate(rem_entries(map, list_map, key),
              Call("rem", key, Unit, rem_value(map, list_map, key), Pre(map, list_map, key)))

lcreate(name) ==
    /\ phase = "active"
    /\ Mutate(lcreate_entries(map, list_map, name),
              Call("lcreate", name, Unit, Unit, Pre(map, list_map, name)))

lexists(name) ==
    /\ phase = "active"
    /\ Return(Call("lexists", name, Unit, lexists_value(list_map, name), NoPre))

\* an lextend that goes through dumpdb when the list is missing too
lextend_dumping(op, name, seq, arg, maxlen) ==
    /\ phase = "active"
    /\ IF name \in DOMAIN list_map
       THEN /\ Len(list_map[name]) + Len(seq) <= maxlen
            /\ Mutate(Entries(map, [list_map EXCEPT ![name] = lextend_list(@, seq)]),
                      Call(op, name, arg, TRUE, NoPre))
       ELSE Mutate(Entries(map, list_map), Call(op, name, arg, FALSE, NoPre))

\* lextend(name, seq); ladd(name, value) is lextend(name, &vec![value])
lextend_as(op, name, seq, arg, maxlen) ==
    /\ phase = "active"
    /\ IF name \in DOMAIN list_map
       THEN /\ Len(list_map[name]) + Len(seq) <= maxlen
            /\ Mutate(Entries(map, [list_map EXCEPT ![name] = lextend_list(@, seq)]),
                      Call(op, name, arg, TRUE, NoPre))
       ELSE Return(Call(op, name, arg, FALSE, NoPre))

lextend(name, seq, maxlen) == lextend_as("lextend", name, seq, seq, maxlen)

ladd(name, value, maxlen) == lextend_as("ladd", name, <<value>>, value, maxlen)

lget(name, pos, ty) ==
    /\ phase = "active"
    /\ Return(Call("lget", name, <<pos, ty>>, lget_value(list_map, name, pos, ty), NoPre))

llen(name) ==
    /\ phase = "active"
    /\ Return(Call("llen", name, Unit, llen_value(list_map, name), NoPre))

lrem_list(name) ==
    /\ phase = "active"
    /\ Mutate(lrem_list_entries(map, list_map, name),
              Call("lrem_list", name, Unit, llen_value(list_map, name), NoPre))

\* lpop::<V>(name, pos): the removed text is decoded after self.dumpdb()
lpop(name, pos, ty) ==
    /\ phase = "active"
    /\ IF lpop_in_bounds(list_map, name, pos)
       THEN Mutate(Entries(map, [list_map EXCEPT ![name] = lpop_list(@, pos)]),
                   Call("lpop", name, <<pos, ty>>, FromJson(ty, list_map[name][pos + 1]),
                        Pre(map, list_map, name)))
       ELSE Return(Call("lpop", name, <<pos, ty>>, None, Pre(map, list_map, name)))

lrem_value(name, value) ==
    /\ phase = "active"
    /\ LET found == IF name \in DOMAIN list_map
                    THEN position(list_map[name], ToJson(value)) ELSE None
       IN  IF found.some
           THEN Mutate(Entries(map, [list_map EXCEPT ![name] = VecRemove(@, found.val)]),
                       Call("lrem_value", name, value, TRUE, NoPre))
           ELSE Return(Call("lrem_value", name, value, FALSE, NoPre))

\* a drop that goes through the policy, as the mutating methods do
drop_by_policy(m, l, path, policy, e, f) == dumpdb(m, l, path, policy, e, f)
\* Drop::drop: lines 730-733
drop_outcomes(m, l, path, policy, e, f) ==
    IF policy.kind = "NeverDump"
    THEN {Outcome(f, e, TRUE, FALSE, FALSE)}
    ELSE dump_outcomes(m, l, path, policy, e, f)

\* Drop for PickleDb, at the end of the owner's scope or while a panic unwinds.
\* A panic in drop ends the process; the store is gone either way.
drop ==
    /\ phase \in {"active", "panicking"}
    /\ \E o \in drop_outcomes(map, list_map, db_file_path, dump_policy, elapsed, fs) :
          /\ fs' = o.fs
          /\ last' = [Call("drop", "", dump_policy, IF o.panic THEN Panic ELSE Unit, NoPre)
                        EXCEPT !.wrote = o.wrote]
    /\ map' = EmptyMap
    /\ list_map' = EmptyMap
    /\ db_file_path' = ""
    /\ dump_policy' = NeverDump
    /\ elapsed' = 0
    /\ phase' = "none"
    /\ hist' = Forgotten(hist)

\* the calls a program makes, with keys and policies drawn from the given sets and
\* lists kept to maxlen items
Step(keys, policies, maxlen) ==
    \/ Tick
    \/ \E location \in Locations, policy \in policies : new(location, policy)
    \/ \E location \in Locations, policy \in policies : load(location, policy)
    \/ dump
    \/ \E key \in keys, value \in Values : set(key, value)
    \/ \E key \in keys, ty \in Types : get(key, ty)
    \/ \E key \in keys : exists(key)
    \/ get_all
    \/ total_keys
    \/ \E key \in keys : rem(key)
    \/ \E name \in keys : lcreate(name)
    \/ \E name \in keys : lexists(name)
    \/ \E name \in keys, value \in Values : ladd(name, value, maxlen)
    \/ \E name \in keys, seq \in Vectors(maxlen) : lextend(name, seq, maxlen)
    \/ \E name \in keys, pos \in 0..maxlen, ty \in Types : lget(name, pos, ty)
    \/ \E name \in keys : llen(name)
    \/ \E name \in keys : lrem_list(name)
    \/ \E name \in keys, pos \in 0..maxlen, ty \in Types : lpop(name, pos, ty)
    \/ \E name \in keys, value \in Values : lrem_value(name, value)
    \/ drop

\* one key under every dump policy
Next ==
    \/ Step({"k1"}, Policies, MaxDumpLen)
    \/ \E location \in Locations : load_read_only(location)
Spec == Init /\ [][Next]_vars

\* one key under AutoDump, longer lists
NextLists == Step({"k1"}, {AutoDump}, MaxLen)
SpecLists == Init /\ [][NextLists]_vars

\* two keys under AutoDump
NextKeys == Step(Keys, {AutoDump}, MaxKeysLen)
SpecKeys == Init /\ [][NextKeys]_vars

PeriodicPolicies == {PeriodicDump(d) : d \in Durations}

\* one key under PeriodicDump, with hist kept
InitPeriodic == InitStore /\ hist = NoHist(TRUE)
NextPeriodic == Step({"k1"}, PeriodicPolicies, MaxPeriodicLen)
SpecPeriodic == InitPeriodic /\ [][NextPeriodic]_vars

\* one key under AutoDump and read-only, over files that other programs wrote
InitForeign ==
    /\ map = EmptyMap
    /\ list_map = EmptyMap
    /\ db_file_path = ""
    /\ dump_policy = NeverDump
    /\ elapsed = 0
    /\ phase = "none"
    /\ fs \in [Locations -> {NoFile, Garbage} \cup ForeignFiles]
    /\ last = Call("none", "", Unit, Unit, NoPre)
    /\ hist = NoHist(FALSE)
NextForeign ==
    \/ Step({"k1"}, {AutoDump}, MaxForeignLen)
    \/ \E location \in Locations : load_read_only(location)
SpecForeign == InitForeign /\ [][NextForeign]_vars

(* Properties.  A call is told from last: Tick leaves last as it is, every *)
(* call of a method replaces it.                                           *)
(***************************************************************************)
\* the file at db_file_path holds the JSON of the entries in memory
Synced == fs[db_file_path] = DbToJson(map, list_map)

\* c is a call that went through self.dumpdb()
ReachedDumpdb(c) ==
    \/ c.op \in {"set", "rem", "lcreate", "lrem_list"}
    \/ c.op \in {"ladd", "lextend", "lrem_value"} /\ c.res
    \/ c.op = "lpop" /\ c.arg[1] < c.pre.len

\* this step is a call of one of the methods in ops (Tick adds 1 to elapsed,
\* which no method does)
CallOf(ops) == phase = "active" /\ last'.op \in ops /\ elapsed' # elapsed + 1

\* C1: no key is in the scalar map and in the list map at the same time, after
\* any sequence of calls under any dump policy.
C1_KeyExclusivity ==
    \A k \in Keys : ~(k \in DOMAIN map /\ k \in DOMAIN list_map)

\* set has just been called on a key that held a list
C1_Witness ==
    /\ phase = "active"
    /\ last.op = "set"
    /\ last.pre.kind = "list"
    /\ last.pre.len > 0
    /\ last.key \in DOMAIN map

\* C2: after set(k, v) on a key that held a list, lexists(k) is false, llen(k) is
\* 0 and get(k) is Some(v); after lcreate(k) on a key that held a scalar or a
\* non-empty list, get(k) is None, lexists(k) is true and llen(k) is 0.  Both
\* return (), and neither panics where the policy has them write nothing.
C2_ExclusivityOverwrite ==
    /\ (last.op = "set" /\ last.pre.kind = "list") =>
          /\ ~lexists_value(list_map, last.key)
          /\ llen_value(list_map, last.key) = 0
          /\ get_value(map, last.key, last.arg.ty) = Some(last.arg)
          /\ last.res = Unit
          /\ (dump_policy.kind \in {"NeverDump", "DumpUponRequest"} => phase = "active")
    /\ (last.op = "lcreate"
           /\ (last.pre.kind = "scalar" \/ (last.pre.kind = "list" /\ last.pre.len > 0))) =>
          /\ \A ty \in Types : get_value(map, last.key, ty) = None
          /\ lexists_value(list_map, last.key)
          /\ llen_value(list_map, last.key) = 0
          /\ last.res = Unit
          /\ (dump_policy.kind \in {"NeverDump", "DumpUponRequest"} => phase = "active")

\* lcreate has just been called on a key that held a scalar
C2_Witness ==
    /\ phase = "active"
    /\ last.op = "lcreate"
    /\ last.pre.kind = "scalar"
    /\ lexists_value(list_map, last.key)

\* C3: get(k) at the type of v just after set(k, v) is Some(v); and a set on a
\* key that holds a scalar (as it does since an earlier set) leaves the number of
\* keys as it was.
C3_ScalarRoundTrip ==
    [][CallOf({"set"}) =>
          /\ get_value(map', last'.key, last'.arg.ty) = Some(last'.arg)
          /\ (last'.key \in DOMAIN map /\ last'.key \notin DOMAIN list_map) =>
                total_keys_value(map', list_map') = total_keys_value(map, list_map)]_vars

\* set has just replaced a scalar by another value, another key being held too
C3_Witness ==
    /\ phase = "active"
    /\ last.op = "set"
    /\ last.pre.kind = "scalar"
    /\ last.pre.text # Some(ToJson(last.arg))
    /\ get_value(map, last.key, last.arg.ty) = Some(last.arg)
    /\ total_keys_value(map, list_map) = 2

\* C4: under NeverDump no call and no drop writes the file, and dump() returns
\* true.
C4_NeverDumpReadOnly ==
    [][(phase \in {"active", "panicking"} /\ dump_policy = NeverDump) =>
          /\ fs' = fs
          /\ ~last'.wrote
          /\ phase' # "panicking"
          /\ CallOf({"dump"}) => last'.res = TRUE]_vars

\* dump() has just returned under NeverDump with entries the file does not hold
C4_Witness ==
    /\ phase = "active"
    /\ dump_policy = NeverDump
    /\ last.op = "dump"
    /\ last.res = TRUE
    /\ map # EmptyMap
    /\ ~Synced

\* C5: under AutoDump, where the writes succeed, the file holds the JSON of the
\* entries as soon as a call that reaches dumpdb has returned, and holds it from
\* then on after every call, those that change nothing too.
C5_AutoDumpPersists ==
    [][(dump_policy' = AutoDump /\ phase' = "active"
           /\ (ReachedDumpdb(last') \/ (phase = "active" /\ Synced))) =>
          Synced']_vars

\* an lpop out of bounds has just returned on a list that the file holds
C5_Witness ==
    /\ phase = "active"
    /\ dump_policy = AutoDump
    /\ last.op = "lpop"
    /\ last.pre.kind = "list"
    /\ last.pre.len > 0
    /\ last.arg[1] >= last.pre.len
    /\ Synced

\* C6: under DumpUponRequest no call of a mutating method writes the file; of the
\* calls made on the store only dump() does, and it writes the JSON of the
\* entries and returns true.
C6_DumpUponRequest ==
    [][(phase = "active" /\ dump_policy = DumpUponRequest /\ phase' # "none") =>
          /\ last'.op # "dump" => (fs' = fs /\ ~last'.wrote /\ phase' = "active")
          /\ (CallOf({"dump"}) /\ phase' = "active") =>
                (last'.res = TRUE /\ last'.wrote /\ Synced')]_vars

\* set has just returned under DumpUponRequest and the file lacks the entry
C6_Witness ==
    /\ phase = "active"
    /\ dump_policy = DumpUponRequest
    /\ last.op = "set"
    /\ ~last.wrote
    /\ ~Synced

\* C7 as the specification words it: two calls that reach dumpdb within d of each
\* other write the file exactly once between them, and one made more than d after
\* the call before it writes.
C7_ExactlyOneFlush ==
    (phase = "active" /\ hist.seen /\ hist.prev.seen) =>
        IF hist.prev.gap <= dump_policy.dur
        THEN (hist.prev.wrote /\ ~hist.wrote) \/ (~hist.prev.wrote /\ hist.wrote)
        ELSE hist.wrote

\* C7: under PeriodicDump(d), two calls that reach dumpdb within d of each other
\* write the file at most once between them, and a call that reaches dumpdb writes
\* the file exactly when more than d has passed since last_dump (the construction
\* of the store or the latest write done under the policy).
C7_PeriodicCooldown ==
    (phase = "active" /\ hist.seen) =>
        /\ (hist.prev.seen /\ hist.prev.gap <= dump_policy.dur) =>
              ~(hist.prev.wrote /\ hist.wrote)
        /\ hist.wrote <=> hist.at > dump_policy.dur

\* two calls within d of each other, the first wrote and the second did not
C7_Witness ==
    /\ phase = "active"
    /\ dump_policy.kind = "PeriodicDump"
    /\ hist.seen
    /\ hist.prev.seen
    /\ hist.prev.gap <= dump_policy.dur
    /\ hist.prev.wrote
    /\ ~hist.wrote

\* C8: a drop under AutoDump, DumpUponRequest or PeriodicDump writes the file,
\* which then holds the JSON of the entries the store had, unless the write
\* fails; a drop under NeverDump writes nothing.
C8_FinalFlush ==
    [][(phase # "none" /\ phase' = "none") =>
          IF dump_policy = NeverDump
          THEN fs' = fs /\ ~last'.wrote
          ELSE last'.res = Unit =>
                  (last'.wrote /\ fs'[db_file_path] = DbToJson(map, list_map))]_vars

\* a store under PeriodicDump has been dropped and the file holds its list
C8_Witness ==
    /\ phase = "none"
    /\ last.op = "drop"
    /\ last.arg.kind = "PeriodicDump"
    /\ last.wrote
    /\ \E location \in Locations :
          fs[location].exists /\ fs[location].wellformed /\ fs[location].doc[2] # {}

\* C9: after dump() has written the file, reading the file as load does gives a
\* scalar map and a list map equal to those of the store, the order of every
\* list included.
C9_DumpLoadRoundTrip ==
    (phase = "active" /\ last.op = "dump" /\ last.wrote) =>
        LET r == ReadDb(fs[db_file_path])
        IN  r.ok /\ r.map = map /\ r.list_map = list_map

\* dump() has just written a store holding a list of two different items
C9_Witness ==
    /\ phase = "active"
    /\ last.op = "dump"
    /\ last.wrote
    /\ \E name \in DOMAIN list_map :
          Len(list_map[name]) = 2 /\ list_map[name][1] # list_map[name][2]
    /\ ReadDb(fs[db_file_path]).ok
    /\ ReadDb(fs[db_file_path]).list_map = list_map

\* C10: on a list of length n, lextend(name, [x1..xm]) returns true, the length
\* becomes n + m, the first n items stay where they were and lget(name, n + i - 1)
\* is xi; ladd(name, x) does what lextend(name, [x]) does.
C10_AppendKeepsOrder ==
    [][(CallOf({"lextend", "ladd"}) /\ last'.key \in DOMAIN list_map) =>
          LET name == last'.key
              xs   == IF last'.op = "ladd" THEN <<last'.arg>> ELSE last'.arg
              n    == Len(list_map[name])
              m    == Len(xs)
          IN  /\ last'.res = TRUE
              /\ llen_value(list_map', name) = n + m
              /\ \A i \in 0..(n - 1), ty \in Types :
                    lget_value(list_map', name, i, ty) = lget_value(list_map, name, i, ty)
              /\ \A i \in 1..m :
                    lget_value(list_map', name, n + i - 1, xs[i].ty) = Some(xs[i])]_vars

\* lextend has just put two different items after the one the list held
C10_Witness ==
    /\ phase = "active"
    /\ last.op = "lextend"
    /\ last.res
    /\ Len(last.arg) = 2
    /\ last.arg[1] # last.arg[2]
    /\ Len(list_map[last.key]) = 3

C12_LpopRemovesWhatItReturns ==
    [][CallOf({"lpop"}) =>
          /\ IF lpop_in_bounds(list_map, last'.key, last'.arg[1])
             THEN /\ last'.res.some
                  /\ llen_value(list_map', last'.key) = llen_value(list_map, last'.key) - 1
             ELSE /\ ~last'.res.some
                  /\ list_map' = list_map
          /\ ~last'.res.some => list_map' = list_map]_vars

\* C13: when name is not a key of the list map (absent, or held as a scalar),
\* ladd and lextend return false, leave both maps as they were and do not reach
\* dumpdb: the file is not written, under AutoDump too, and last_dump is kept.
C13_AppendToMissingList ==
    [][(CallOf({"ladd", "lextend"}) /\ last'.key \notin DOMAIN list_map) =>
          /\ last'.res = FALSE
          /\ map' = map
          /\ list_map' = list_map
          /\ fs' = fs
          /\ ~last'.wrote
          /\ elapsed' = elapsed
          /\ phase' = "active"]_vars

\* ladd has just returned false under AutoDump, and the file, which the store has
\* not written yet, is left as it was
C13_Witness ==
    /\ phase = "active"
    /\ dump_policy = AutoDump
    /\ last.op = "ladd"
    /\ ~last.res
    /\ last.key \notin DOMAIN list_map
    /\ ~Synced

\* the result the methods give for a key that is in neither map
MissingResult(op) ==
    CASE op \in {"get", "lget", "lpop"} -> None
      [] op \in {"rem", "lrem_value"} -> FALSE
      [] op \in {"llen", "lrem_list"} -> 0

\* C14: for a key in neither map get returns None, rem false, llen 0, lrem_list 0,
\* lget and lpop None and lrem_value false; for a list of length n and pos >= n
\* lget and lpop return None.  None of these calls panics and none changes
\* either map.
C14_MissingAndOutOfBounds ==
    [][/\ (CallOf({"get", "rem", "llen", "lrem_list", "lget", "lpop", "lrem_value"})
             /\ KeyKind(map, list_map, last'.key) = "absent") =>
             /\ last'.res = MissingResult(last'.op)
             /\ phase' # "panicking"
             /\ map' = map
             /\ list_map' = list_map
       /\ (CallOf({"lget", "lpop"})
             /\ last'.key \in DOMAIN list_map
             /\ last'.arg[1] >= Len(list_map[last'.key])) =>
             /\ last'.res = None
             /\ phase' # "panicking"
             /\ map' = map
             /\ list_map' = list_map]_vars

C16_LremValueByPosition ==
    [][CallOf({"lrem_value"}) =>
          LET name == last'.key
              pos  == last'.arg.v
          IN  IF lpop_in_bounds(list_map, name, pos)
              THEN /\ last'.res = TRUE
                   /\ list_map' = [list_map EXCEPT ![name] = VecRemove(@, pos)]
              ELSE /\ last'.res = FALSE
                   /\ list_map' = list_map]_vars

\* C17: lrem_list(name) returns the number of items the list had (0 when there
\* is no list under name), afterwards lexists(name) is false, and the scalar map
\* is as it was: a scalar held under name is still returned by get(name), and
\* exists(name) is still true for it.
C17_LremListOnlyLists ==
    [][CallOf({"lrem_list"}) =>
          LET name == last'.key
          IN  /\ last'.res = llen_value(list_map, name)
              /\ (name \notin DOMAIN list_map => last'.res = 0)
              /\ ~lexists_value(list_map', name)
              /\ map' = map
              /\ \A ty \in Types : get_value(map', name, ty) = get_value(map, name, ty)
              /\ name \in DOMAIN map => exists_value(map', list_map', name)]_vars

\* lrem_list has just returned 0 for a key that holds a scalar, and get still
\* returns the scalar
C17_Witness ==
    /\ phase = "active"
    /\ last.op = "lrem_list"
    /\ last.res = 0
    /\ last.key \in DOMAIN map
    /\ get_value(map, last.key, "i32").some
    /\ exists_value(map, list_map, last.key)

\* C18: in every state reached from an empty store, get_all() holds every key
\* for which exists is true and no other, each once, and total_keys() is the
\* length of get_all(), which is the number of distinct keys of the store.
C18_KeyEnumerationExact ==
    \A keys \in get_all_values(map, list_map) :
        /\ {keys[i] : i \in 1..Len(keys)} = {k \in Keys : exists_value(map, list_map, k)}
        /\ \A i, j \in 1..Len(keys) : keys[i] = keys[j] => i = j
        /\ total_keys_value(map, list_map) = Len(keys)
        /\ Len(keys) = Cardinality((DOMAIN map) \cup (DOMAIN list_map))

\* get_all() has just returned the two keys of a store that holds a scalar and a
\* list
C18_Witness ==
    /\ phase = "active"
    /\ last.op = "get_all"
    /\ Len(last.res) = 2
    /\ last.res \in get_all_values(map, list_map)
    /\ DOMAIN map # {}
    /\ DOMAIN list_map # {}

\* C19: a flush that fails does not interrupt the mutating call that started it:
\* the call returns with its entries changed, and the failure is told only by
\* dump(), which returns false and does not panic either.
C19_FailedFlushReported ==
    [][/\ CallOf({"set", "rem", "lcreate", "ladd", "lextend", "lpop", "lrem_value",
                  "lrem_list"}) => phase' = "active"
       /\ CallOf({"dump"}) =>
             (phase' = "active" /\ (last'.res <=> (last'.wrote \/ dump_policy = NeverDump)))]_vars

\* C20: under PeriodicDump(d) a mutating call that returns has written the file
\* exactly when the time since last_dump at the call was more than d; when it
\* writes, last_dump is set to the time of the call; when the time was d or less,
\* the file and last_dump are as they were.  So a write made by the policy comes
\* more than d after the write before it, made by the policy or by dump().
C20_PeriodicGate ==
    [][(CallOf({"set", "rem", "lcreate", "ladd", "lextend", "lpop", "lrem_value",
                "lrem_list"})
           /\ ReachedDumpdb(last') /\ phase' = "active") =>
          /\ last'.wrote <=> elapsed > dump_policy.dur
          /\ last'.wrote => (elapsed' = 0 /\ Synced')
          /\ ~last'.wrote => (fs' = fs /\ elapsed' = elapsed)
          /\ last'.wrote => (hist.written = -1 \/ hist.written > dump_policy.dur)]_vars

\* a mutating call has just written the file more than d after an earlier write,
\* the mutating call before it having written nothing
C20_Witness ==
    /\ phase = "active"
    /\ dump_policy.kind = "PeriodicDump"
    /\ ReachedDumpdb(last)
    /\ last.wrote
    /\ elapsed = 0
    /\ hist.written = 0
    /\ hist.prev.seen
    /\ ~hist.prev.wrote
    /\ hist.prev.gap <= dump_policy.dur
    /\ Synced

\* a method that goes through dumpdb on at least one of its paths
MutatingOps == {"set", "rem", "lcreate", "ladd", "lextend", "lpop", "lrem_value", "lrem_list"}

\* C21: under every policy but NeverDump a dump() that returns has written the
\* JSON of the entries, whatever the time since last_dump, and returned true;
\* under PeriodicDump(d) it has set last_dump, so that a mutating call made d or
\* less after it (only ticks of the clock in between) writes nothing; under
\* AutoDump and DumpUponRequest it leaves last_dump as it was.
C21_SharedCooldownClock ==
    [][/\ (CallOf({"dump"}) /\ dump_policy # NeverDump /\ phase' = "active") =>
             /\ last'.res = TRUE
             /\ last'.wrote
             /\ Synced'
             /\ elapsed' = IF dump_policy.kind = "PeriodicDump" THEN 0 ELSE elapsed
       /\ (CallOf(MutatingOps) /\ dump_policy.kind = "PeriodicDump"
             /\ last.op = "dump" /\ last.wrote /\ elapsed <= dump_policy.dur) =>
             (~last'.wrote /\ fs' = fs /\ phase' = "active")]_vars

\* dump() has just written the entries of a store under PeriodicDump and set
\* last_dump
C21_Witness ==
    /\ phase = "active"
    /\ dump_policy.kind = "PeriodicDump"
    /\ last.op = "dump"
    /\ last.res = TRUE
    /\ last.wrote
    /\ elapsed = 0
    /\ map # EmptyMap
    /\ Synced

\* C22: rem(key) returns true exactly when key was in a map before the call, and
\* the key is then gone from the map that held it; rem goes through the dump
\* policy whether or not it removed anything, and so does lrem_list: a call that
\* returns has written the file under AutoDump, and under PeriodicDump(d) when
\* more than d had passed since last_dump, also for a key or list that is not
\* there.
C22_RemCountsAsMutation ==
    [][/\ CallOf({"rem"}) =>
             /\ last'.res <=> (last'.key \in DOMAIN map \/ last'.key \in DOMAIN list_map)
             /\ last'.key \notin DOMAIN map'
             /\ last'.key \in DOMAIN map => list_map' = list_map
             /\ last'.key \notin DOMAIN map => (map' = map /\ last'.key \notin DOMAIN list_map')
       /\ (CallOf({"rem", "lrem_list"}) /\ phase' = "active") =>
             /\ last'.wrote <=>
                   \/ dump_policy = AutoDump
                   \/ dump_policy.kind = "PeriodicDump" /\ elapsed > dump_policy.dur
             /\ last'.wrote => Synced']_vars

\* rem of a key that is in neither map has just returned false under AutoDump and
\* has written the file
C22_Witness ==
    /\ phase = "active"
    /\ dump_policy = AutoDump
    /\ last.op = "rem"
    /\ last.pre.kind = "absent"
    /\ ~last.res
    /\ last.wrote
    /\ Synced

\* the methods that take &self
ReadOps == {"get", "exists", "get_all", "total_keys", "lexists", "lget", "llen"}

\* C23: get, exists, get_all, total_keys, lexists, lget and llen change neither
\* map, nor the policy, the location or last_dump, and write nothing under any
\* policy; a get or lget of a text that does not decode as the type asked for
\* returns None and leaves the entry, which a read at its own type still returns.
C23_ReadsHaveNoEffect ==
    [][CallOf(ReadOps) =>
          /\ map' = map
          /\ list_map' = list_map
          /\ dump_policy' = dump_policy
          /\ db_file_path' = db_file_path
          /\ elapsed' = elapsed
          /\ fs' = fs
          /\ ~last'.wrote
          /\ phase' = "active"
          /\ (last'.op = "get" /\ last'.key \in DOMAIN map /\ last'.arg = "String") =>
                /\ last'.res = None
                /\ get_value(map', last'.key, "i32") = get_value(map, last'.key, "i32")
                /\ get_value(map', last'.key, "i32").some
          /\ (last'.op = "lget" /\ lpop_in_bounds(list_map, last'.key, last'.arg[1])
                /\ last'.arg[2] = "String") =>
                /\ last'.res = None
                /\ lget_value(list_map', last'.key, last'.arg[1], "i32")
                      = lget_value(list_map, last'.key, last'.arg[1], "i32")
                /\ lget_value(list_map', last'.key, last'.arg[1], "i32").some]_vars

\* get of an i32 entry asked for as a String has just returned None, and the
\* entry is still read as an i32
C23_Witness ==
    /\ phase = "active"
    /\ last.op = "get"
    /\ last.arg = "String"
    /\ ~last.res.some
    /\ last.key \in DOMAIN map
    /\ get_value(map, last.key, "i32").some

\* C24: a mutating method called with key or list name k leaves the entry of
\* every other key as it was in both maps, the items of every other list and
\* their order included, and changes neither the dump policy nor the location.
C24_MutationsLocalToKey ==
    [][CallOf(MutatingOps) =>
          /\ \A k \in Keys \ {last'.key} :
                /\ MapGet(map', k) = MapGet(map, k)
                /\ MapGet(list_map', k) = MapGet(list_map, k)
          /\ dump_policy' = dump_policy
          /\ db_file_path' = db_file_path]_vars

\* a list has just been removed while another key holds a list of two different
\* items
C24_Witness ==
    /\ phase = "active"
    /\ last.op = "lrem_list"
    /\ last.res > 0
    /\ \E k \in Keys \ {last.key} :
          /\ k \in DOMAIN list_map
          /\ Len(list_map[k]) = 2
          /\ list_map[k][1] # list_map[k][2]

\* C25: new() and load() set last_dump to the time of construction, so under
\* PeriodicDump(d) a mutating call writes the file only when the store is more
\* than d old: none made within d of construction does, the first write of the
\* policy included (dump() and drop write at any age).
C25_CooldownStartsAtConstruction ==
    phase = "active" =>
        /\ last.op \in {"new", "load"} => elapsed = hist.age
        /\ (hist.seen /\ hist.age <= dump_policy.dur) => ~hist.wrote
        /\ (hist.seen /\ hist.wrote) => (hist.age > dump_policy.dur /\ hist.at > dump_policy.dur)

\* a set made d after construction has written nothing: the file lacks the entry
C25_Witness ==
    /\ phase = "active"
    /\ dump_policy.kind = "PeriodicDump"
    /\ last.op = "set"
    /\ hist.seen
    /\ hist.since = 0
    /\ hist.age = dump_policy.dur
    /\ ~hist.wrote
    /\ ~Synced

\* C26: after rem(k) returns, on a store made by new, load or load_read_only and
\* whatever was called since, k is in neither map: exists(k) and lexists(k) are
\* false, get(k) is None at every type and get_all() does not list k.
C26_RemLeavesKeyAbsent ==
    [][(CallOf({"rem"}) /\ phase' = "active") =>
          /\ last'.key \notin DOMAIN map'
          /\ last'.key \notin DOMAIN list_map'
          /\ ~exists_value(map', list_map', last'.key)
          /\ ~lexists_value(list_map', last'.key)
          /\ \A ty \in Types : get_value(map', last'.key, ty) = None
          /\ \A keys \in get_all_values(map', list_map') :
                 \A i \in 1..Len(keys) : keys[i] # last'.key]_vars

=============================================================================
